---- MODULE Spec2Model ----
(***************************************************************************)
(* TrainMetricsRecorder (image_classification/utils_ic/fastai_utils.py):   *)
(* a training-loop callback that buffers training batches, evaluates the   *)
(* metric functions on them at the end of every epoch, keeps the per-epoch *)
(* histories, writes a result table and plots the histories.               *)
(*                                                                         *)
(* Conventions of the model                                                *)
(*  - a float is its value in units of 1e-9 (0.123456789 is 123456789);    *)
(*  - a stat is a record [t, v]: t = "none" (None), "int" or "float";      *)
(*  - a column name is a pair <<prefix, base>>: 'train_' + m is            *)
(*    <<"train_", m>>, the literal 'epoch' is <<"", "epoch">>;             *)
(*  - a tensor of a batch is the batch's index within its epoch;           *)
(*  - format_time(time() - start_epoch) is the cell TimeCell;              *)
(*  - the host (fastai's fit loop) owns metrics, epoch, num_batch, phase.  *)
(*  - the figure keeps the number of its axes; what a call of plot() puts  *)
(*    on the axes it reaches is the observation drawn (every pass of the   *)
(*    loop starts with ax.clear(), so earlier drawings decide nothing);    *)
(*  - lastOp, result, ret, written, drawn, plotCalls, returned, lastIn     *)
(*    observe the last call: which, how it ended, what it returned, wrote  *)
(*    and drew; a written row carries the stats it was formatted from;     *)
(*  - the user may call plot() and the accessors between any two hooks     *)
(*    (after an interrupted fit the object is in such a state).            *)
(***************************************************************************)
EXTENDS Integers, Sequences, FiniteSets

VARIABLES
    pc,             \* "new" | "failed" (constructor raised) | "ready"
    n_batch,        \* <<>> for None, <<k>> for the integer k
    show_graph, silent,
    recorder_silent,\* learn.recorder.silent
    has_metrics, has_val, names, metrics_names, n_epochs,
    train_metrics, valid_metrics,
    y, out,
    fig,            \* [has, naxes]: hasattr(self, 'fig'), len(self.axes)
    phase,          \* host: "none" | "run" | "epoch"
    metrics, epoch, num_batch,
    lastOp, result, ret, written, drawn, plotCalls, returned, lastIn

vars == << pc, n_batch, show_graph, silent, recorder_silent, has_metrics,
           has_val, names, metrics_names, n_epochs, train_metrics,
           valid_metrics, y, out, fig, phase, metrics, epoch, num_batch,
           lastOp, result, ret, written, drawn, plotCalls, returned, lastIn >>

config == << n_batch, show_graph, silent >>
runState == << has_metrics, has_val, names, metrics_names, n_epochs >>
histories == << train_metrics, valid_metrics >>
buffers == << y, out >>
host == << phase, metrics, epoch, num_batch >>

----------------------------------------------------------------------------
(* Bounds of the exploration *)
MaxEpochs == 2
MaxBatches == 2
MaxCap == 1

(* Inputs *)
None == <<>>
CapInputs == {None} \cup {<<k>> : k \in -1..MaxCap}
MetricLists == { <<>>, <<"accuracy">>, <<"accuracy", "error_rate">> }
\* what a batch of data can look like to a metric function
Scores == {1, 2}
SmoothLossInputs == {250000000}
ValidLossInputs == {<<>>, <<7812500>>}   \* <<>>: the host has no loss (None)

NoneStat == [t |-> "none", v |-> 0]
IntStat(n) == [t |-> "int", v |-> n]
FloatStat(x) == [t |-> "float", v |-> x]

Min2(a, b) == IF a <= b THEN a ELSE b
Max2(a, b) == IF a >= b THEN a ELSE b
Abs(a) == IF a < 0 THEN -a ELSE a

----------------------------------------------------------------------------
(* __init__ *)

\* Python truth value of n_batch: None and 0 are false
Truthy(nb) == nb # None /\ nb[1] # 0

\* if n_batch: assert n_batch > 0
CtorAccepts(nb) == Truthy(nb) => nb[1] > 0

----------------------------------------------------------------------------
(* on_train_begin *)

\* self.has_metrics = metrics and len(metrics) > 0   (its truth value)
HasMetrics(ms) == Len(ms) > 0

RECURSIVE MetricColumns(_, _)
\* for m in self.metrics_names: append 'train_' + m, and 'valid_' + m if has_val
MetricColumns(mn, hv) ==
    IF mn = <<>> THEN <<>>
    ELSE << <<"train_", Head(mn)>> >>
         \o (IF hv THEN << <<"valid_", Head(mn)>> >> ELSE <<>>)
         \o MetricColumns(Tail(mn), hv)

\* Variant with a slip: 'valid_loss' appended without the test
BuildNamesAlwaysValidLoss(mn, hv) ==
    << <<"", "epoch">>, <<"train_", "loss">>, <<"valid_", "loss">> >>
    \o MetricColumns(mn, hv)
    \o << <<"", "time">> >>

\* self.names as on_train_begin builds it
BuildNames(mn, hv) ==
    << <<"", "epoch">>, <<"train_", "loss">> >>
    \o (IF hv THEN << <<"valid_", "loss">> >> ELSE <<>>)
    \o MetricColumns(mn, hv)
    \o << <<"", "time">> >>

----------------------------------------------------------------------------
(* on_batch_end *)

\* Variant with a slip: n_batch >= num_batch
AccumulatesOffByOne(train, nb, num, hm) ==
    train /\ (nb = None \/ nb[1] >= num) /\ hm

\* train and (self.n_batch is None or self.n_batch > num_batch) and self.has_metrics
Accumulates(train, nb, num, hm) ==
    train /\ (nb = None \/ nb[1] > num) /\ hm

----------------------------------------------------------------------------
(* _format_stats *)

TimeCell == [k |-> "time", neg |-> FALSE, n |-> 0]

\* round(a / d) to the nearest integer, ties to even, a >= 0: what '.6f' does
RoundHalfEven(a, d) ==
    LET q == a \div d
        r == a % d
    IN  IF 2 * r < d THEN q
        ELSE IF 2 * r > d THEN q + 1
        ELSE IF q % 2 = 0 THEN q ELSE q + 1

\* '#na#' if stat is None else str(stat) if isinstance(stat, int) else f'{stat:.6f}'
\* a fixed6 cell holds the sign and the magnitude in units of 1e-6
FormatStat(stat) ==
    IF stat.t = "none" THEN [k |-> "na", neg |-> FALSE, n |-> 0]
    ELSE IF stat.t = "int" THEN [k |-> "int", neg |-> stat.v < 0, n |-> Abs(stat.v)]
    ELSE [k |-> "fixed6", neg |-> stat.v < 0, n |-> RoundHalfEven(Abs(stat.v), 1000)]

\* Variant with a slip: the time cell forgotten
_format_stats_no_time(nms, stats) ==
    [i \in 1..Min2(Len(nms), Len(stats)) |-> FormatStat(stats[i])]

\* for name, stat in zip(self.names, stats): ...; then the time cell
_format_stats(nms, stats) ==
    [i \in 1..Min2(Len(nms), Len(stats)) |-> FormatStat(stats[i])] \o <<TimeCell>>

----------------------------------------------------------------------------
(* plot *)

\* -0.05, 1.05 and the padding 0.05 of y_bounds, in units of 1e-9
YLow == -50000000
YHigh == 1050000000
YPad == 50000000
\* -0.05 and 0.95 of x_bounds = (-0.05, n_epochs - 0.95), in units of 1e-2
XLow == -5
XOffset == 95

NoFig == [has |-> FALSE, naxes |-> 0]
\* an axis after ax.clear()
ClearAxis == [train |-> <<>>, valid |-> <<>>, xlim |-> <<>>, ylim |-> <<>>,
              ylabel |-> ""]

RECURSIVE SeqMin(_)
SeqMin(s) == IF Len(s) = 1 THEN s[1] ELSE Min2(s[1], SeqMin(Tail(s)))
RECURSIVE SeqMax(_)
SeqMax(s) == IF Len(s) = 1 THEN s[1] ELSE Max2(s[1], SeqMax(Tail(s)))

\* [met[i] for met in history]; defined when every vector has an i-th entry
Column(history, i) == [e \in 1..Len(history) |-> history[e][i]]
HasColumn(history, i) == \A e \in 1..Len(history) : i <= Len(history[e])

\* Tensor(tr_m): the values of a list of float stats
TensorOf(s) == [e \in 1..Len(s) |-> s[e].v]

\* the builtin min / max over Tensor(vl_m) raises on an empty sequence
YBoundsDefined(tr_m, vl_m) == Len(tr_m) > 0 /\ Len(vl_m) > 0

\* y_bounds = (min(-0.05, min(tr_m), min(vl_m)) - 0.05,
\*             max(1.05, max(tr_m), max(vl_m)) + 0.05)
YBounds(tr_m, vl_m) ==
    << Min2(YLow, Min2(SeqMin(TensorOf(tr_m)), SeqMin(TensorOf(vl_m)))) - YPad,
       Max2(YHigh, Max2(SeqMax(TensorOf(tr_m)), SeqMax(TensorOf(vl_m)))) + YPad >>

XBounds(nep) == << XLow, nep * 100 - XOffset >>

\* One pass of the loop body for axis i: [ok, axis]. The axis is what is on
\* the figure when the body returns or raises.
PlotAxis(i, tm, vm, mn, nep) ==
    IF ~HasColumn(tm, i)
    THEN [ok |-> FALSE, err |-> "IndexError", axis |-> ClearAxis]
    ELSE LET tr_m == Column(tm, i)
             line1 == [ClearAxis EXCEPT !.train = tr_m]
         IN  IF Len(vm) > 0 /\ ~HasColumn(vm, i)
             THEN [ok |-> FALSE, err |-> "IndexError", axis |-> line1]
             ELSE LET vl_m == IF Len(vm) > 0 THEN Column(vm, i) ELSE <<>>
                      both == [line1 EXCEPT !.valid = vl_m]
                  IN  IF ~YBoundsDefined(tr_m, vl_m)
                      THEN [ok |-> FALSE, err |-> "ValueError_min", axis |-> both]
                      ELSE IF i > Len(mn)
                      THEN [ok |-> FALSE, err |-> "IndexError",
                            axis |-> [both EXCEPT !.xlim = XBounds(nep),
                                                  !.ylim = YBounds(tr_m, vl_m)]]
                      ELSE [ok |-> TRUE, err |-> "ok",
                            axis |-> [both EXCEPT !.xlim = XBounds(nep),
                                                  !.ylim = YBounds(tr_m, vl_m),
                                                  !.ylabel = mn[i]]]

RECURSIVE PlotAxes(_, _, _, _, _, _, _)
\* for i, ax in enumerate(self.axes): the loop from axis i on, stopping at
\* the first axis that raises; axes: what the loop has drawn so far
PlotAxes(i, n, axes, tm, vm, mn, nep) ==
    IF i > n THEN [result |-> "ok", axes |-> axes]
    ELSE LET one == PlotAxis(i, tm, vm, mn, nep)
             now == Append(axes, one.axis)
         IN  IF one.ok THEN PlotAxes(i + 1, n, now, tm, vm, mn, nep)
             ELSE [result |-> one.err, axes |-> now]

\* if not hasattr(self, 'fig'): one axis per metric of the first epoch
InitGraph(f, tm) ==
    IF f.has THEN f
    ELSE [has |-> TRUE, naxes |-> Len(tm[1])]

\* plot() from "# init graph" on: [result, fig, drawn]
plot_body(tm, vm, f, mn, nep) ==
    LET g == InitGraph(f, tm)
        loop == PlotAxes(1, g.naxes, <<>>, tm, vm, mn, nep)
    IN  [result |-> loop.result, fig |-> g, drawn |-> loop.axes]

\* Variant with a slip: the figure made before the test
plot_figure_first(started, tm, vm, f, mn, nep) ==
    IF ~started THEN [result |-> "AttributeError", fig |-> f, drawn |-> <<>>]
    ELSE IF Len(tm) = 0
    THEN [result |-> "ValueError_NoRecords",
          fig |-> [has |-> TRUE, naxes |-> 0], drawn |-> <<>>]
    ELSE IF Len(vm) > 0 /\ Len(tm[1]) # Len(vm[1])
    THEN [result |-> "AssertionError", fig |-> f, drawn |-> <<>>]
    ELSE plot_body(tm, vm, f, mn, nep)

\* plot(): [result, fig, drawn]; started: on_train_begin has set the attributes
plot(started, tm, vm, f, mn, nep) ==
    IF ~started THEN [result |-> "AttributeError", fig |-> f, drawn |-> <<>>]
    ELSE IF Len(tm) = 0
    THEN [result |-> "ValueError_NoRecords", fig |-> f, drawn |-> <<>>]
    ELSE IF Len(vm) > 0 /\ Len(tm[1]) # Len(vm[1])
    THEN [result |-> "AssertionError", fig |-> f, drawn |-> <<>>]
    ELSE plot_body(tm, vm, f, mn, nep)

----------------------------------------------------------------------------
(* last_train_metrics, last_valid_metrics *)

\* Variant with a slip: history[0]
LastOfFirst(history) ==
    IF Len(history) = 0 THEN [result |-> "IndexError", value |-> <<>>]
    ELSE [result |-> "ok", value |-> history[1]]

\* history[-1]: [result, value]
LastOf(history) ==
    IF Len(history) = 0 THEN [result |-> "IndexError", value |-> <<>>]
    ELSE [result |-> "ok", value |-> history[Len(history)]]

----------------------------------------------------------------------------
(* on_epoch_end *)

Raises == [t |-> "raise", v |-> 0]

\* The metric functions are the caller's: m_fn(input, targs) is a pure function
\* of the data. Two stand for them; a score is what the data looks like.
MetricValue(m, q) ==
    IF m = "accuracy"
    THEN (IF q = 1 THEN 123456789 ELSE 1300000000)
    ELSE (IF q = 1 THEN 876543211 ELSE -300000000)

\* what the metric functions do on the stacked buffers: every one returns its
\* value on the data, or the i-th one raises
TrainOutcomes(ms) ==
    { [i \in 1..Len(ms) |-> FloatStat(MetricValue(ms[i], q))] : q \in Scores }
    \cup { [i \in 1..Len(ms) |-> IF i = j THEN Raises
                                  ELSE FloatStat(MetricValue(ms[i], 1))] :
            j \in 1..Len(ms) }

\* last_metrics as the host passes it: the validation loss and the value of
\* every metric on the validation data when a validation split exists, [None]
\* otherwise
LastMetricsInputs(hv, ms) ==
    IF hv
    THEN { <<IF l = <<>> THEN NoneStat ELSE FloatStat(l[1])>>
             \o [i \in 1..Len(ms) |-> FloatStat(MetricValue(ms[i], q))] :
             l \in ValidLossInputs, q \in Scores }
    ELSE { <<NoneStat>> }

\* tr_lm = [m_fn(torch.stack(self.out), torch.stack(self.y)) for m_fn in metrics]
\* torch.stack raises on an empty list; the first metric that raises ends it
Evaluate(outcome, o, yy) ==
    IF Len(outcome) = 0 THEN [result |-> "ok", tr_lm |-> <<>>]
    ELSE IF Len(o) = 0 \/ Len(yy) = 0 THEN [result |-> "RuntimeError_stack", tr_lm |-> <<>>]
    ELSE IF \E i \in 1..Len(outcome) : outcome[i] = Raises
    THEN [result |-> "MetricError", tr_lm |-> <<>>]
    ELSE [result |-> "ok", tr_lm |-> outcome]

\* Variant with a slip: self.train_metrics = [tr_lm]
AppendTrainOverwrites(tm, tr_lm) == <<tr_lm>>

\* self.train_metrics.append(tr_lm)
AppendTrain(tm, tr_lm) == Append(tm, tr_lm)

\* Variant with a slip: no append when the loss is None
AppendValidSkipsNoLoss(vm, hv, lm) ==
    IF hv /\ lm[1].t # "none" THEN Append(vm, Tail(lm)) ELSE vm

\* if self.has_val: self.valid_metrics.append(last_metrics[1:])
AppendValid(vm, hv, lm) == IF hv THEN Append(vm, Tail(lm)) ELSE vm

RECURSIVE MetricStats(_, _, _, _)
\* for i in range(len(metrics)): stats.append(tr_lm[i]); if has_val: stats.append(vl_lm[i])
MetricStats(i, tr_lm, hv, vl_lm) ==
    IF i > Len(tr_lm) THEN <<>>
    ELSE <<tr_lm[i]>> \o (IF hv THEN <<vl_lm[i]>> ELSE <<>>)
         \o MetricStats(i + 1, tr_lm, hv, vl_lm)

\* stats = [epoch, smooth_loss], then last_metrics[0] if has_val, then the metrics
Stats(ep, sl, hv, hm, lm, tr_lm) ==
    << IntStat(ep), FloatStat(sl) >>
    \o (IF hv THEN <<lm[1]>> ELSE <<>>)
    \o (IF hm THEN MetricStats(1, tr_lm, hv, Tail(lm)) ELSE <<>>)

\* if not self.silent: self._format_stats(stats)
WritesRow(sil) == ~sil

\* Variant with a slip: the plot outside "if not self.silent"
CallsPlotIgnoresSilent(sil, sg, tm) == sg /\ Len(tm) > 0

\* if not self.silent: ... if self.show_graph and len(self.train_metrics) > 0: self.plot()
CallsPlot(sil, sg, tm) == ~sil /\ sg /\ Len(tm) > 0

----------------------------------------------------------------------------
(* The state machine *)

begun == phase # "none"

NoIn == [some |-> FALSE, tr |-> <<>>, vl |-> <<>>]

Init ==
    /\ pc = "new"
    /\ n_batch = None /\ show_graph = FALSE /\ silent = FALSE
    /\ recorder_silent = FALSE
    /\ has_metrics = FALSE /\ has_val = FALSE
    /\ names = <<>> /\ metrics_names = <<>> /\ n_epochs = 0
    /\ train_metrics = <<>> /\ valid_metrics = <<>>
    /\ y = <<>> /\ out = <<>>
    /\ fig = NoFig
    /\ phase = "none" /\ metrics = <<>> /\ epoch = 0 /\ num_batch = 0
    /\ lastOp = "none" /\ result = "ok" /\ ret = <<>> /\ written = <<>>
    /\ drawn = <<>>
    /\ plotCalls = 0 /\ returned = 0 /\ lastIn = NoIn

\* TrainMetricsRecorder(learn, n_batch, show_graph, silent)
__init__(nb, sg, sil) ==
    /\ pc = "new"
    /\ IF CtorAccepts(nb)
       THEN /\ pc' = "ready"
            /\ n_batch' = nb /\ show_graph' = sg /\ silent' = sil
            /\ result' = "ok"
       ELSE /\ pc' = "failed"
            /\ UNCHANGED config
            /\ result' = "AssertionError"
    /\ lastOp' = "init"
    /\ UNCHANGED << recorder_silent, runState, histories, buffers, fig, host,
                    ret, written, drawn, plotCalls, returned, lastIn >>

\* on_train_begin(pbar, metrics, n_epochs); hv: learn.data has a valid_ds
on_train_begin(ms, hv) ==
    /\ pc = "ready"
    /\ has_metrics' = HasMetrics(ms)
    /\ has_val' = hv
    /\ recorder_silent' = TRUE
    /\ metrics_names' = ms
    /\ names' = BuildNames(ms, hv)
    /\ written' = IF silent THEN <<>>
                  ELSE << [kind |-> "header", cells |-> names', of |-> <<>>] >>
    /\ n_epochs' = MaxEpochs
    /\ valid_metrics' = <<>>
    /\ train_metrics' = <<>>
    /\ phase' = "run" /\ metrics' = ms /\ epoch' = 0 /\ num_batch' = 0
    /\ lastOp' = "on_train_begin" /\ result' = "ok" /\ ret' = <<>>
    /\ drawn' = <<>>
    /\ plotCalls' = 0 /\ returned' = 0 /\ lastIn' = NoIn
    /\ UNCHANGED << pc, config, buffers, fig >>

\* on_epoch_begin()
on_epoch_begin ==
    /\ pc = "ready"
    /\ phase = "run"
    /\ epoch < MaxEpochs
    /\ y' = <<>>
    /\ out' = <<>>
    /\ phase' = "epoch" /\ num_batch' = 0
    /\ lastOp' = "on_epoch_begin" /\ result' = "ok" /\ ret' = <<>>
    /\ written' = <<>> /\ drawn' = <<>> /\ plotCalls' = 0
    /\ UNCHANGED << pc, config, recorder_silent, runState, histories, fig,
                    metrics, epoch, returned, lastIn >>

\* on_batch_end(train, num_batch, last_target, last_output); the host counts
\* the training batches of the epoch from 0
on_batch_end(train) ==
    /\ pc = "ready"
    /\ phase = "epoch"
    /\ train => num_batch < MaxBatches
    /\ IF Accumulates(train, n_batch, num_batch, has_metrics)
       THEN /\ y' = Append(y, num_batch)
            /\ out' = Append(out, num_batch)
       ELSE UNCHANGED buffers
    /\ num_batch' = IF train THEN num_batch + 1 ELSE num_batch
    /\ lastOp' = IF train THEN "on_batch_end_train" ELSE "on_batch_end_valid"
    /\ result' = "ok" /\ ret' = <<>> /\ written' = <<>> /\ drawn' = <<>>
    /\ plotCalls' = 0
    /\ UNCHANGED << pc, config, recorder_silent, runState, histories, fig,
                    phase, metrics, epoch, returned, lastIn >>

\* on_epoch_end(epoch, smooth_loss, metrics, last_metrics, pbar)
on_epoch_end(sl, lm, outcome) ==
    /\ pc = "ready"
    /\ phase = "epoch"
    /\ LET ev == IF has_metrics THEN Evaluate(outcome, out, y)
                 ELSE [result |-> "ok", tr_lm |-> <<>>]
           tm == IF has_metrics THEN AppendTrain(train_metrics, ev.tr_lm)
                 ELSE train_metrics
           vm == IF has_metrics THEN AppendValid(valid_metrics, has_val, lm)
                 ELSE valid_metrics
           stats == Stats(epoch, sl, has_val, has_metrics, lm, ev.tr_lm)
           row == _format_stats(names, stats)
           pl == plot(TRUE, tm, vm, fig, metrics_names, n_epochs)
       IN  IF ev.result # "ok"
           THEN /\ result' = ev.result
                /\ written' = <<>> /\ drawn' = <<>> /\ plotCalls' = 0
                /\ UNCHANGED << histories, fig, returned, lastIn >>
           ELSE /\ train_metrics' = tm
                /\ valid_metrics' = vm
                /\ lastIn' = IF has_metrics
                             THEN [some |-> TRUE, tr |-> ev.tr_lm, vl |-> Tail(lm)]
                             ELSE lastIn
                /\ written' = IF WritesRow(silent)
                              THEN << [kind |-> "stats", cells |-> row, of |-> stats] >>
                              ELSE <<>>
                /\ IF CallsPlot(silent, show_graph, tm)
                   THEN /\ plotCalls' = 1
                        /\ fig' = pl.fig
                        /\ drawn' = pl.drawn
                        /\ result' = pl.result
                   ELSE /\ plotCalls' = 0
                        /\ fig' = fig
                        /\ drawn' = <<>>
                        /\ result' = "ok"
                /\ returned' = IF result' = "ok" THEN returned + 1 ELSE returned
    /\ phase' = "run" /\ epoch' = epoch + 1
    /\ lastOp' = "on_epoch_end" /\ ret' = <<>>
    /\ UNCHANGED << pc, config, recorder_silent, runState, buffers, metrics,
                    num_batch >>

\* plot(), called by the user
UserPlot ==
    /\ pc = "ready"
    /\ LET pl == plot(begun, train_metrics, valid_metrics, fig, metrics_names, n_epochs)
       IN  /\ fig' = pl.fig
           /\ drawn' = pl.drawn
           /\ result' = pl.result
    /\ lastOp' = "plot" /\ ret' = <<>> /\ written' = <<>> /\ plotCalls' = 1
    /\ UNCHANGED << pc, config, recorder_silent, runState, histories, buffers,
                    host, returned, lastIn >>

\* last_train_metrics()
last_train_metrics ==
    /\ pc = "ready"
    /\ LET r == IF begun THEN LastOf(train_metrics)
                ELSE [result |-> "AttributeError", value |-> <<>>]
       IN  result' = r.result /\ ret' = r.value
    /\ lastOp' = "last_train_metrics" /\ written' = <<>> /\ drawn' = <<>>
    /\ plotCalls' = 0
    /\ UNCHANGED << pc, config, recorder_silent, runState, histories, buffers,
                    fig, host, returned, lastIn >>

\* last_valid_metrics()
last_valid_metrics ==
    /\ pc = "ready"
    /\ LET r == IF begun THEN LastOf(valid_metrics)
                ELSE [result |-> "AttributeError", value |-> <<>>]
       IN  result' = r.result /\ ret' = r.value
    /\ lastOp' = "last_valid_metrics" /\ written' = <<>> /\ drawn' = <<>>
    /\ plotCalls' = 0
    /\ UNCHANGED << pc, config, recorder_silent, runState, histories, buffers,
                    fig, host, returned, lastIn >>

Next ==
    \/ \E nb \in CapInputs, sg \in BOOLEAN, sil \in BOOLEAN : __init__(nb, sg, sil)
    \/ \E ms \in MetricLists, hv \in BOOLEAN : on_train_begin(ms, hv)
    \/ on_epoch_begin
    \/ \E train \in BOOLEAN : on_batch_end(train)
    \/ \E sl \in SmoothLossInputs, lm \in LastMetricsInputs(has_val, metrics),
          outcome \in TrainOutcomes(metrics) : on_epoch_end(sl, lm, outcome)
    \/ UserPlot
    \/ last_train_metrics
    \/ last_valid_metrics

Spec == Init /\ [][Next]_vars

----------------------------------------------------------------------------
(* Claims *)

EpochEndReturned == lastOp = "on_epoch_end" /\ result = "ok"

\* C1 as stated: after the e-th on_epoch_end of a run has returned,
\* len(train_metrics) = e and, with a validation split, len(valid_metrics) = e,
\* for every configuration, an empty metric list included.
C1_LengthsAnyConfig ==
    EpochEndReturned =>
        /\ Len(train_metrics) = returned
        /\ has_val => Len(valid_metrics) = returned

\* C1 amended: in a run with a non-empty metric list, once e >= 1 calls of
\* on_epoch_end have returned, len(train_metrics) = e and, with a validation
\* split, len(valid_metrics) = e; in a run with an empty metric list both
\* histories stay empty.
C1_Lengths ==
    begun =>
        /\ (has_metrics /\ returned >= 1) =>
              /\ Len(train_metrics) = returned
              /\ has_val => Len(valid_metrics) = returned
        /\ ~has_metrics => (train_metrics = <<>> /\ valid_metrics = <<>>)

C1_Witness ==
    /\ EpochEndReturned /\ returned = 2 /\ has_metrics /\ has_val
    /\ Len(train_metrics) = 2 /\ Len(valid_metrics) = 2

\* C2: inside an epoch, after n training batches (indices 0, 1, ...), y and out
\* each hold min(n, k) entries under the cap k (n without a cap) when metrics
\* are configured and none otherwise; a validation batch changes neither
\* buffer; only on_epoch_begin makes a buffer shorter.
C2_Expected ==
    IF ~has_metrics THEN 0
    ELSE IF n_batch = None THEN num_batch
    ELSE Min2(num_batch, n_batch[1])

C2_Buffers ==
    /\ [](phase = "epoch" => (Len(y) = C2_Expected /\ Len(out) = C2_Expected))
    /\ [][ /\ lastOp' = "on_batch_end_valid" => (y' = y /\ out' = out)
           /\ (Len(y') < Len(y) \/ Len(out') < Len(out))
                 => lastOp' = "on_epoch_begin" ]_vars

C2_Witness ==
    /\ phase = "epoch" /\ epoch >= 1 /\ has_metrics
    /\ n_batch = <<1>> /\ num_batch = 2
    /\ Len(y) = 1 /\ Len(out) = 1

\* C3: after on_train_begin with m metrics the column names are 'epoch',
\* 'train_loss', 'valid_loss' only with a validation split, per metric
\* 'train_<name>' and, only with a validation split, 'valid_<name>', then
\* 'time'; 2 + has_val + (2m or m) + 1 names, none starting with 'valid_'
\* without a validation split; no later call changes the list.
C3_NameAt(k) ==
    LET m == Len(metrics)
        first == IF has_val THEN 3 ELSE 2       \* the columns before the metrics
        per == IF has_val THEN 2 ELSE 1         \* the columns of one metric
        j == k - first                          \* 1-based place among the metric columns
    IN  IF k = 1 THEN <<"", "epoch">>
        ELSE IF k = 2 THEN <<"train_", "loss">>
        ELSE IF k = 3 /\ has_val THEN <<"valid_", "loss">>
        ELSE IF k = first + per * m + 1 THEN <<"", "time">>
        ELSE IF has_val /\ j % 2 = 0 THEN <<"valid_", metrics[j \div 2]>>
        ELSE IF has_val THEN <<"train_", metrics[(j + 1) \div 2]>>
        ELSE <<"train_", metrics[j]>>

C3_Length ==
    2 + (IF has_val THEN 1 ELSE 0)
      + (IF has_val THEN 2 * Len(metrics) ELSE Len(metrics)) + 1

C3_Columns ==
    /\ [](begun =>
            /\ Len(names) = C3_Length
            /\ \A k \in 1..Len(names) : names[k] = C3_NameAt(k)
            /\ ~has_val => \A k \in 1..Len(names) : names[k][1] # "valid_")
    /\ [][lastOp' # "on_train_begin" => names' = names]_vars

C3_Witness ==
    /\ EpochEndReturned /\ has_val /\ Len(metrics) = 2 /\ Len(names) = 8
    /\ names[5] = <<"valid_", "accuracy">> /\ names[6] = <<"train_", "error_rate">>

\* C4 as stated: a recorder that was constructed has no cap or a positive one
\* (every n_batch <= 0, 0 included, fails in the constructor).
C4_CapPositive ==
    pc = "ready" => (n_batch = None \/ n_batch[1] > 0)

\* C5: an on_epoch_end in which a metric function raises propagates the error
\* and changes neither history; in every state of a run with a validation
\* split, len(train_metrics) = len(valid_metrics).
C5_NoPartialAppend ==
    /\ [][(lastOp' = "on_epoch_end" /\ result' = "MetricError")
            => (train_metrics' = train_metrics /\ valid_metrics' = valid_metrics)]_vars
    /\ []((begun /\ has_val) => Len(train_metrics) = Len(valid_metrics))

C5_Witness ==
    /\ lastOp = "on_epoch_end" /\ result = "MetricError"
    /\ has_val /\ Len(train_metrics) = 1 /\ Len(valid_metrics) = 1

\* C6: plot() in a run with no recorded epoch of training metrics raises
\* 'No records to plot.', makes no figure, draws nothing and changes neither
\* the histories nor the column names.
C6_NoRecords ==
    [][(lastOp' = "plot" /\ begun /\ Len(train_metrics) = 0)
        => /\ result' = "ValueError_NoRecords"
           /\ fig' = fig /\ drawn' = <<>>
           /\ train_metrics' = train_metrics /\ valid_metrics' = valid_metrics
           /\ names' = names]_vars

C6_Witness ==
    /\ lastOp = "plot" /\ result = "ValueError_NoRecords"
    /\ begun /\ returned >= 1 /\ ~fig.has

C7_Accessor == lastOp \in {"last_train_metrics", "last_valid_metrics"}

\* C7 as stated: once an on_epoch_end of the run has returned, each accessor
\* returns that call's vector (the training metrics it computed, last_metrics
\* without its first element); before, each raises IndexError.
C7_LastOfCompletedEpoch ==
    (C7_Accessor /\ begun) =>
        IF returned = 0 THEN result = "IndexError"
        ELSE /\ result = "ok"
             /\ ret = IF lastOp = "last_train_metrics" THEN lastIn.tr ELSE lastIn.vl

\* C7 amended: last_train_metrics() returns the vector appended by the most
\* recent on_epoch_end of the run that evaluated a non-empty metric list
\* without an exception, and raises IndexError when the run has none;
\* last_valid_metrics() returns last_metrics[1:] of that same call when the
\* run has a validation split, and raises IndexError when the run has no
\* such call or no validation split; neither changes any state.
C7_LastOfHistory ==
    /\ []((lastOp = "last_train_metrics" /\ begun) =>
            IF lastIn.some THEN result = "ok" /\ ret = lastIn.tr
            ELSE result = "IndexError")
    /\ []((lastOp = "last_valid_metrics" /\ begun) =>
            IF lastIn.some /\ has_val THEN result = "ok" /\ ret = lastIn.vl
            ELSE result = "IndexError")
    /\ [][(lastOp' \in {"last_train_metrics", "last_valid_metrics"})
            => UNCHANGED << pc, config, recorder_silent, runState, histories,
                            buffers, fig, host >>]_vars

C7_Witness ==
    /\ lastOp = "last_valid_metrics" /\ result = "ok"
    /\ Len(valid_metrics) = 2 /\ ret = valid_metrics[2] /\ ret # valid_metrics[1]

C8_Hook ==
    lastOp \in {"on_train_begin", "on_epoch_begin", "on_batch_end_train",
                "on_batch_end_valid", "on_epoch_end"}

C8_EvalFailed == result \in {"MetricError", "RuntimeError_stack"}

C8_Silent ==
    (silent /\ C8_Hook) => (written = <<>> /\ plotCalls = 0)

C8_Header ==
    (~silent /\ lastOp = "on_train_begin") =>
        (Len(written) = 1 /\ written[1].kind = "header" /\ written[1].cells = names)

C8_RowAndPlot ==
    /\ Len(written) = 1 /\ written[1].kind = "stats"
    /\ plotCalls = 1 <=> (show_graph /\ Len(train_metrics) > 0)

\* C8 as stated: silent, no hook writes a row or plots; not silent,
\* on_train_begin writes the header once and every on_epoch_end writes one
\* stats row and plots exactly when show_graph is set and train_metrics is
\* not empty.
C8_EveryEpochEndWrites ==
    /\ C8_Silent
    /\ C8_Header
    /\ (~silent /\ lastOp = "on_epoch_end") => C8_RowAndPlot

\* C8 amended: as stated, for every on_epoch_end that gets past the evaluation
\* of the training metrics; an on_epoch_end in which stacking the buffers or
\* a metric function raises writes no row and does not plot. The histories
\* an on_epoch_end leaves do not depend on silent.
C8_Output ==
    /\ [](/\ C8_Silent
          /\ C8_Header
          /\ (~silent /\ lastOp = "on_epoch_end" /\ ~C8_EvalFailed) => C8_RowAndPlot
          /\ (lastOp = "on_epoch_end" /\ C8_EvalFailed)
                => (written = <<>> /\ plotCalls = 0))
    /\ [][lastOp' = "on_epoch_end" =>
            IF C8_EvalFailed' \/ ~has_metrics
            THEN train_metrics' = train_metrics /\ valid_metrics' = valid_metrics
            ELSE /\ train_metrics' = Append(train_metrics, lastIn'.tr)
                 /\ valid_metrics' = IF has_val THEN Append(valid_metrics, lastIn'.vl)
                                     ELSE valid_metrics]_vars

C8_Witness ==
    /\ silent /\ show_graph /\ lastOp = "on_epoch_end" /\ result = "ok"
    /\ Len(train_metrics) = 2 /\ written = <<>> /\ plotCalls = 0

\* the y-bounds the claim gives, over the series that exist (values of stats)
C9_YBounds(series) ==
    << Min2(YLow, SeqMin(series)) - YPad, Max2(YHigh, SeqMax(series)) + YPad >>

C9_Series(history, i) == [e \in 1..Len(history) |-> history[e][i].v]

\* C9 as stated: with at least one recorded epoch plot() completes, with or
\* without a validation history; every panel shows the training series, the
\* validation series if there is one, and the y-bounds
\* (min(-0.05, smallest) - 0.05, max(1.05, largest) + 0.05) over them.
C9_PlotCompletes ==
    (lastOp = "plot" /\ begun /\ Len(train_metrics) > 0) =>
        /\ result = "ok"
        /\ fig.has /\ Len(drawn) = fig.naxes
        /\ \A i \in 1..Len(drawn) :
              /\ TensorOf(drawn[i].train) = C9_Series(train_metrics, i)
              /\ TensorOf(drawn[i].valid) =
                    (IF Len(valid_metrics) > 0 THEN C9_Series(valid_metrics, i) ELSE <<>>)
              /\ drawn[i].ylim =
                    C9_YBounds(C9_Series(train_metrics, i)
                               \o (IF Len(valid_metrics) > 0
                                   THEN C9_Series(valid_metrics, i) ELSE <<>>))

\* the cell of a stat: '#na#' for None, the decimal integer for an int, else
\* the decimal with 6 places nearest to the value (an exact tie goes to the
\* even last digit)
C10_CellOf(c, st) ==
    IF st.t = "none" THEN c.k = "na"
    ELSE IF st.t = "int"
    THEN c.k = "int" /\ (IF c.neg THEN -c.n ELSE c.n) = st.v
    ELSE LET d == Abs(1000 * c.n - Abs(st.v))
         IN  /\ c.k = "fixed6" /\ c.neg = (st.v < 0)
             /\ 2 * d <= 1000
             /\ (2 * d = 1000) => c.n % 2 = 0

\* C10: a stats row has as many cells as the header, the time cell last, and
\* every cell before it is the cell of its stat.
C10_Rows ==
    \A r \in 1..Len(written) :
        written[r].kind = "stats" =>
            LET cells == written[r].cells
                stats == written[r].of
            IN  /\ Len(cells) = Len(names)
                /\ cells[Len(cells)] = TimeCell
                /\ Len(stats) = Len(cells) - 1
                /\ \A i \in 1..Len(stats) : C10_CellOf(cells[i], stats[i])

C10_Witness ==
    /\ Len(written) = 1 /\ written[1].kind = "stats"
    /\ has_val /\ Len(metrics) = 2 /\ Len(written[1].cells) = 8
    /\ written[1].cells[1] = [k |-> "int", neg |-> FALSE, n |-> 1]
    /\ written[1].cells[3].k = "na"
    /\ written[1].cells[4] = [k |-> "fixed6", neg |-> FALSE, n |-> 123457]

====
